---- MODULE Spec2Model ----
(***************************************************************************)
(* Label generator (app.py): the label renderer build_label_image and the  *)
(* A4 page tiler generar_etiquetas_paralelo, with the Streamlit handlers   *)
(* that reach them.                                                        *)
(*                                                                         *)
(* Units.  Inside a label every coordinate is in pixels, as in the code.   *)
(* On the page every coordinate is in millimetres: the code multiplies     *)
(* each of them by reportlab's constant `mm` (points per millimetre), a    *)
(* common positive factor that is left out here.  A4 is 210 x 297 mm.      *)
(*                                                                         *)
(* Texts.  A text (sku, nombre) is the sequence of the lengths of its      *)
(* whitespace separated words, i.e. what text.split() yields; the empty    *)
(* or blank text is << >>.  String cells (url, codigo_barras) are strings. *)
(***************************************************************************)
EXTENDS Integers, Sequences, FiniteSets, TLC

VARIABLES
    cfg,        \* sidebar widgets and environment of the run (lines 36, 395-414)
    df,         \* the data frame handed to the tiler: [columns, rows]
    pc,         \* position of the script / of generar_etiquetas_paralelo
    cols,       \* parameter cols of generar_etiquetas_paralelo
    rows,       \* parameter rows of generar_etiquetas_paralelo
    canvas,     \* the reportlab Canvas c: [created, code, pages, saved]
    futures,    \* the list futures: one task per submitted row
    i,          \* index of the placement loop (next record to place, 0-based)
    ops,        \* document operations issued so far, in order
    preview,    \* the preview image of the first row (or NoImage)
    error,      \* what the run reported: "none", "config", "ZeroDivisionError"
    download,   \* TRUE once st.download_button offered the buffer
    entry,      \* how the tiler was reached: "none", "ui" or "direct"
    inp,        \* the arguments of the one call studied on its own
                \* (build_label_image, draw_centered_wrapped) or the last
                \* click of the individual mode
    out,        \* what that call returned (or NoImage)
    selected_items  \* st.session_state.selected_items (lines 328-329)

vars == <<cfg, df, pc, cols, rows, canvas, futures, i, ops, preview, error,
          download, entry, inp, out, selected_items>>

-----------------------------------------------------------------------------
(* Program constants *)

\* MM_TO_PX = 4 (pixels per millimetre of the label raster)
MM_TO_PX == 4

\* ThreadPoolExecutor(max_workers=4)
max_workers == 4

\* A4 in millimetres (reportlab.lib.pagesizes.A4 divided by mm)
A4_W == 210
A4_H == 297

\* int(15 * MM_TO_PX): the barcode is 15 mm high
BARCODE_MM == 15

-----------------------------------------------------------------------------
(* Bounds of the model *)

\* longest data frame tiled by the worker pool path
MaxRecords == 5

\* length of the long data frame (20 records at 9 per page), tiled sequentially
LongRun == 20

\* largest cols / rows a direct call of the tiler is given
MaxGrid == 2

\* records beyond one full page given to the tiler when the whole range of
\* the size widgets is explored
Overflow == 1

\* rows of the page of search results shown in the individual mode
MaxPageRows == 6

\* longest text (in words) and longest word (in characters) given to
\* draw_centered_wrapped on its own
MaxWords == 4
MaxWordLen == 4

-----------------------------------------------------------------------------
(* Values *)

\* a blank spreadsheet cell as pandas delivers it (float NaN)
NaN == "<NaN>"

\* a URL longer than the capacity of the largest QR symbol: qr.make raises
LongUrl == "https://example.com/<more than 2953 bytes>"

\* a barcode value with a character outside the Code128 character set
BadCode == "7790<non-ASCII>01"

NoImage == [none |-> TRUE]

Max(a, b) == IF a >= b THEN a ELSE b
Min(a, b) == IF a <= b THEN a ELSE b

\* str(v) of a cell: a string is itself, the float NaN prints as "nan"
Str(v) == IF v = NaN THEN "nan" ELSE v

\* h_px values up to 1299 for which the double product h_px * 0.35 lies just
\* below the exact integer, so that int() truncates one lower
Float035Low == {180, 340, 360, 660, 680, 700, 720}

\* int(x * 0.35) in double arithmetic
Int035(x) ==
    IF x \in Float035Low THEN (x * 35) \div 100 - 1 ELSE (x * 35) \div 100

\* int(x * 0.6), int(x * 0.9), int(x * 0.85): exact for every x up to 3000
Int06(x) == (x * 6) \div 10
Int09(x) == (x * 9) \div 10
Int085(x) == (x * 85) \div 100

-----------------------------------------------------------------------------
(* Text measurement and wrapping: draw_centered_wrapped *)

RECURSIVE SumSeq(_)
SumSeq(s) == IF s = << >> THEN 0 ELSE s[1] + SumSeq(Tail(s))

\* number of characters of the words joined by single blanks
Chars(ws) == IF ws = << >> THEN 0 ELSE SumSeq(ws) + Len(ws) - 1

\* draw.textbbox((0,0), line, font): width and height of a line in pixels.
\* The rasteriser is PIL's; a font of size f is taken to advance
\* f * 6 div 10 pixels per character and to be f pixels high.
TextWidth(ws, font) == Chars(ws) * ((font * 6) \div 10)
TextHeight(ws, font) == font

\* variant: a word that fits exactly is pushed to the next line
RECURSIVE WrapLinesStrict(_, _, _, _, _, _)
WrapLinesStrict(words, k, current, lines, font, max_width) ==
    IF k > Len(words)
    THEN IF current # << >> THEN Append(lines, current) ELSE lines
    ELSE LET w == words[k]
             test == Append(current, w)
         IN  IF TextWidth(test, font) < max_width \/ current = << >>
             THEN WrapLinesStrict(words, k + 1, test, lines, font, max_width)
             ELSE WrapLinesStrict(words, k + 1, <<w>>, Append(lines, current),
                                  font, max_width)

RECURSIVE WrapLines(_, _, _, _, _, _)
WrapLines(words, k, current, lines, font, max_width) ==
    IF k > Len(words)
    THEN IF current # << >> THEN Append(lines, current) ELSE lines
    ELSE LET w == words[k]
             test == Append(current, w)
         IN  IF TextWidth(test, font) <= max_width \/ current = << >>
             THEN WrapLines(words, k + 1, test, lines, font, max_width)
             ELSE WrapLines(words, k + 1, <<w>>, Append(lines, current),
                            font, max_width)

RECURSIVE LineTops(_, _, _, _)
LineTops(lines, k, y, font) ==
    IF k > Len(lines) THEN << >>
    ELSE <<y>> \o LineTops(lines, k + 1, y + TextHeight(lines[k], font) + 2, font)

RECURSIVE TotalHeight(_, _, _)
TotalHeight(lines, k, font) ==
    IF k > Len(lines) THEN 0
    ELSE TextHeight(lines[k], font) + 2 + TotalHeight(lines, k + 1, font)

\* returns total_h together with what was drawn: the lines, the top of each
\* line and twice the left edge of each line (x_center - w_px/2 is a float)
draw_centered_wrapped(text, x_center, y_top, font, max_width) ==
    IF text = << >>
    THEN [total_h |-> 0, lines |-> << >>, tops |-> << >>, lefts2 |-> << >>]
    ELSE LET lines == WrapLines(text, 1, << >>, << >>, font, max_width)
         IN  [total_h |-> TotalHeight(lines, 1, font),
              lines   |-> lines,
              tops    |-> LineTops(lines, 1, y_top, font),
              lefts2  |-> [k \in 1..Len(lines) |->
                              2 * x_center - TextWidth(lines[k], font)]]

-----------------------------------------------------------------------------
(* External encoders *)

\* qrcode: qr.add_data(url); qr.make(fit=True) raises DataOverflowError when
\* the data exceeds the largest symbol
QrEncodes(url) == url # LongUrl

\* python-barcode: barcode.get('code128', code_str) raises on a character
\* outside the Code128 set
BarcodeEncodes(code_str) == code_str # BadCode

\* generate_barcode_image: None (here NoImage) or an image of the target size
generate_barcode_image(code_str, target_width_px, target_height_px, available) ==
    IF ~available \/ code_str = "" THEN NoImage
    ELSE IF BarcodeEncodes(code_str)
         THEN [none |-> FALSE, w |-> target_width_px, h |-> target_height_px]
         ELSE NoImage

-----------------------------------------------------------------------------
(* The label renderer: build_label_image *)

\* pt -> px: max(lo, int(pt * (MM_TO_PX / 3.0))); exact in doubles for the
\* sizes the sidebar allows (6..36 pt) and scales up to 8
FontPx(pt, px, lo) == Max(lo, (pt * px) \div 3)

\* the logo block (lines 150-164): the logo drawn, if any, the cursor below
\* it and whether a failure was logged
LogoBlock(w_px, logo, mostrar_logo) ==
    IF mostrar_logo /\ logo.state # "missing"
    THEN IF logo.state = "ok"
         THEN LET max_logo_w == Int06(w_px)
                  \* ratio = width / height; logo_h = int(max_logo_w / ratio)
                  logo_h == IF logo.height # 0
                            THEN (max_logo_w * logo.height) \div logo.width
                            ELSE max_logo_w
              IN  [drawn |-> TRUE, x |-> (w_px - max_logo_w) \div 2, y |-> 6,
                   w |-> max_logo_w, h |-> logo_h,
                   top_after_logo |-> 6 + logo_h + 6, failed |-> FALSE]
         ELSE [drawn |-> FALSE, x |-> 0, y |-> 0, w |-> 0, h |-> 0,
               top_after_logo |-> 10, failed |-> TRUE]
    ELSE [drawn |-> FALSE, x |-> 0, y |-> 0, w |-> 0, h |-> 0,
          top_after_logo |-> 10, failed |-> FALSE]

\* the cursor below a QR whose encoding raised (line 197)
AfterFailedQr(top_after_logo, qr_size) == top_after_logo + qr_size + 6

\* variant: the space of the QR is kept although no QR is asked for
QrBlockReservesSpace(w_px, h_px, url, top_after_logo, mostrar_codigo_qr) ==
    LET qr_size == Min(Int06(w_px), Int035(h_px))
    IN  IF mostrar_codigo_qr /\ url # "" /\ QrEncodes(url)
        THEN [drawn |-> TRUE, x |-> (w_px - qr_size) \div 2,
              y |-> top_after_logo, size |-> qr_size, data |-> url,
              after_qr |-> top_after_logo + qr_size + 6, failed |-> FALSE]
        ELSE [drawn |-> FALSE, x |-> 0, y |-> 0, size |-> 0, data |-> "",
              after_qr |-> top_after_logo + qr_size + 6,
              failed |-> mostrar_codigo_qr /\ url # ""]

\* the QR block (lines 166-197)
QrBlock(w_px, h_px, url, top_after_logo, mostrar_codigo_qr) ==
    IF mostrar_codigo_qr /\ url # ""
    THEN LET qr_size == Min(Int06(w_px), Int035(h_px))
         IN  IF QrEncodes(url)
             THEN [drawn |-> TRUE, x |-> (w_px - qr_size) \div 2,
                   y |-> top_after_logo, size |-> qr_size, data |-> url,
                   after_qr |-> top_after_logo + qr_size + 6, failed |-> FALSE]
             ELSE [drawn |-> FALSE, x |-> 0, y |-> 0, size |-> 0, data |-> "",
                   after_qr |-> AfterFailedQr(top_after_logo, qr_size),
                   failed |-> TRUE]
    ELSE [drawn |-> FALSE, x |-> 0, y |-> 0, size |-> 0, data |-> "",
          after_qr |-> top_after_logo, failed |-> FALSE]

\* the barcode block (lines 214-228)
BarcodeBlock(w_px, h_px, codigo_barras, px, mostrar_codigo_barras, available) ==
    IF mostrar_codigo_barras /\ codigo_barras # "" /\ available
    THEN LET target_w == Int085(w_px)
             target_h_px == BARCODE_MM * px
             barcode_img == generate_barcode_image(codigo_barras, target_w,
                                                   target_h_px, available)
         IN  IF ~barcode_img.none
             THEN [drawn |-> TRUE, x |-> (w_px - barcode_img.w) \div 2,
                   y |-> h_px - barcode_img.h - 6,
                   w |-> barcode_img.w, h |-> barcode_img.h,
                   data |-> codigo_barras, failed |-> FALSE]
             ELSE [drawn |-> FALSE, x |-> 0, y |-> 0, w |-> 0, h |-> 0,
                   data |-> "", failed |-> TRUE]
    ELSE [drawn |-> FALSE, x |-> 0, y |-> 0, w |-> 0, h |-> 0,
          data |-> "", failed |-> FALSE]

\* c: [ancho_mm, alto_mm, font_sku_pt, font_nombre_pt, logo, mostrar_logo,
\*     mostrar_codigo_qr, mostrar_codigo_barras, barcode_available];
\* px: the value of the global MM_TO_PX.  (qr_error_correction selects the
\* redundancy of the symbol and has no part in the layout.)
build_label_image(sku, nombre, url, codigo_barras, c, px) ==
    LET w_px == c.ancho_mm * px
        h_px == c.alto_mm * px
        logo == LogoBlock(w_px, c.logo, c.mostrar_logo)
        qr == QrBlock(w_px, h_px, url, logo.top_after_logo, c.mostrar_codigo_qr)
        after_qr == qr.after_qr
        font_sku == FontPx(c.font_sku_pt, px, 8)
        font_nombre == FontPx(c.font_nombre_pt, px, 7)
        t_sku == draw_centered_wrapped(sku, w_px \div 2, after_qr, font_sku,
                                       Int09(w_px))
        y_after_sku == after_qr + t_sku.total_h + 4
        t_name == draw_centered_wrapped(nombre, w_px \div 2, y_after_sku,
                                        font_nombre, Int09(w_px))
        bar == BarcodeBlock(w_px, h_px, codigo_barras, px,
                            c.mostrar_codigo_barras, c.barcode_available)
    IN  [none |-> FALSE, w_px |-> w_px, h_px |-> h_px, px |-> px,
         logo |-> logo, qr |-> qr,
         sku |-> [y |-> after_qr, text |-> t_sku],
         nombre |-> [y |-> y_after_sku, text |-> t_name],
         barcode |-> bar]

-----------------------------------------------------------------------------
(* The page tiler: generar_etiquetas_paralelo *)

\* row.get(name, "") followed by str(): "" for a missing column
RowGet(row, name, d) == IF name \in d.columns THEN Str(row[name]) ELSE ""

\* the fields of a row as procesar_etiqueta and both previews read them
\* (lines 240-243, 448-451): sku and nombre are texts, url and codigo_barras
\* go through str()
RowFields(row, d) ==
    [sku |-> row.sku, nombre |-> row.nombre,
     url |-> RowGet(row, "url", d),
     codigo_barras |-> IF "codigo_barras" \in d.columns
                       THEN Str(row.codigo_barras) ELSE ""]

\* col, rown of record idx (lines 251-253)
CellCol(idx, ncols) == idx % ncols

\* variant: the row is not wrapped at the end of a page
CellRowUnwrapped(idx, ncols, nrows) == idx \div ncols

CellRow(idx, ncols, nrows) == (idx \div ncols) % nrows

\* x, y of a cell in mm from the left and the bottom edge (lines 254-255)
CellX(col, c) == c.margen_mm + col * c.ancho_mm

\* variant: y is measured from the top edge and not flipped
CellYFromTop(rown, c) == c.margen_mm + rown * c.alto_mm

CellY(rown, c) == A4_H - (c.margen_mm + (rown + 1) * c.alto_mm)

\* variant: a failure inside the renderer is not caught and leaves the task
procesar_etiqueta_uncaught(idx, row, d, c, ncols, nrows) ==
    LET f == RowFields(row, d)
        img_label == build_label_image(f.sku, f.nombre, f.url, f.codigo_barras,
                                       c, MM_TO_PX)
    IN  IF img_label.logo.failed \/ img_label.qr.failed
               \/ img_label.barcode.failed
        THEN [exc |-> "Exception", rendered |-> TRUE]
        ELSE IF ncols = 0 \/ nrows = 0
        THEN [exc |-> "ZeroDivisionError", rendered |-> TRUE]
        ELSE LET col == CellCol(idx, ncols)
                 rown == CellRow(idx, ncols, nrows)
             IN  [exc |-> "none", rendered |-> TRUE, rec |-> idx,
                  img |-> img_label, col |-> col, rown |-> rown,
                  x |-> CellX(col, c), y |-> CellY(rown, c)]

\* procesar_etiqueta(i, row): renders the label, then computes the cell;
\* idx % cols and (idx // cols) % rows raise ZeroDivisionError on 0
procesar_etiqueta(idx, row, d, c, ncols, nrows) ==
    LET f == RowFields(row, d)
        img_label == build_label_image(f.sku, f.nombre, f.url, f.codigo_barras,
                                       c, MM_TO_PX)
    IN  IF ncols = 0 \/ nrows = 0
        THEN [exc |-> "ZeroDivisionError", rendered |-> TRUE]
        ELSE LET col == CellCol(idx, ncols)
                 rown == CellRow(idx, ncols, nrows)
             IN  [exc |-> "none", rendered |-> TRUE, rec |-> idx,
                  img |-> img_label, col |-> col, rown |-> rown,
                  x |-> CellX(col, c), y |-> CellY(rown, c)]

\* variant: the page break test reads i instead of i+1
PageFullOffByOne(idx, ncols, nrows) == idx % (ncols * nrows) = 0

\* what drawImage is given for the label in cell (col, rown) when the global
\* MM_TO_PX is px: lines 254-255 and 268 do not read it
Footprint(col, rown, c, px) ==
    [x |-> CellX(col, c), y |-> CellY(rown, c), w |-> c.ancho_mm, h |-> c.alto_mm]

\* the page closes after record idx (lines 271, 280)
PageFull(idx, ncols, nrows) == (idx + 1) % (ncols * nrows) = 0

\* canvas.Canvas(buffer, pagesize=A4)
NewCanvas == [created |-> TRUE, code |-> << >>, pages |-> << >>, saved |-> FALSE]
NoCanvas == [created |-> FALSE, code |-> << >>, pages |-> << >>, saved |-> FALSE]

\* c.drawImage(img_reader, x, y, ancho_mm*mm, alto_mm*mm)
drawImage(cv, r, c) ==
    [cv EXCEPT !.code = Append(@, [rec |-> r.rec, x |-> r.x, y |-> r.y,
                                   w |-> c.ancho_mm, h |-> c.alto_mm,
                                   col |-> r.col, rown |-> r.rown,
                                   img |-> r.img])]

\* c.showPage(): the current page joins the document, a blank one starts
showPage(cv) == [cv EXCEPT !.pages = Append(@, cv.code), !.code = << >>]

\* variant: the document is closed without flushing the page in progress
saveWithoutFlush(cv) == [cv EXCEPT !.saved = TRUE]

\* c.save(): reportlab flushes the current page when it holds anything
save(cv) ==
    [(IF cv.code # << >> THEN showPage(cv) ELSE cv) EXCEPT !.saved = TRUE]

\* drawImage of one result followed by the page break test
PlaceLabel(cv, r, idx, c, ncols, nrows) ==
    IF PageFull(idx, ncols, nrows)
    THEN showPage(drawImage(cv, r, c))
    ELSE drawImage(cv, r, c)

OpsOfPlace(r, idx, c, ncols, nrows) ==
    <<[op |-> "drawImage", rec |-> r.rec, x |-> r.x, y |-> r.y,
       w |-> c.ancho_mm, h |-> c.alto_mm]>>
    \o (IF PageFull(idx, ncols, nrows) THEN <<[op |-> "showPage"]>> ELSE << >>)

NRows == Len(df.rows)

-----------------------------------------------------------------------------
(* Inputs *)

Url == "https://example.com/p/123"
Code == "7790001000017"

SkuText == <<7>>
NombreText == <<6, 9, 5>>

LogoOk == [state |-> "ok", width |-> 400, height |-> 200]
LogoCorrupt == [state |-> "corrupt", width |-> 0, height |-> 0]
LogoMissing == [state |-> "missing", width |-> 0, height |-> 0]

\* rows of a sheet read by load_data_from_excel_batch (blank cells are NaN)
\* and of the frame pd.DataFrame(selected_items) of the individual mode
\* (url is always "", a blank barcode was replaced by "")
RowOf(pattern, j) ==
    CASE pattern = "full" ->
           [sku |-> SkuText, nombre |-> NombreText, url |-> Url,
            codigo_barras |-> Code]
      [] pattern = "blank" ->
           [sku |-> SkuText, nombre |-> NombreText,
            url |-> IF j % 2 = 1 THEN NaN ELSE Url,
            codigo_barras |-> IF j % 2 = 1 THEN NaN ELSE Code]
      [] pattern = "failing" ->
           [sku |-> SkuText, nombre |-> NombreText,
            url |-> IF j = 1 THEN LongUrl ELSE Url,
            codigo_barras |-> IF j = 1 THEN BadCode ELSE Code]
      [] pattern = "nobarcode" ->
           [sku |-> SkuText, nombre |-> NombreText, url |-> Url]
      [] pattern = "selected" ->
           [sku |-> SkuText, nombre |-> NombreText, url |-> "",
            codigo_barras |-> IF j % 2 = 1 THEN "" ELSE Code]

Patterns == {"full", "blank", "failing", "nobarcode", "selected"}

ColumnsOf(pattern) ==
    IF pattern = "nobarcode" THEN {"sku", "nombre", "url"}
    ELSE {"sku", "nombre", "url", "codigo_barras"}

Frame(n, pattern) ==
    [columns |-> ColumnsOf(pattern), rows |-> [j \in 1..n |-> RowOf(pattern, j)]]

Frames ==
    {Frame(n, p) : n \in 1..MaxRecords, p \in Patterns}
        \cup {Frame(LongRun, "full")}

\* sidebar values (within the ranges of the number_input widgets) and the
\* environment: the logo file and whether python-barcode was imported
Configs ==
    {c \in [ancho_mm : {60, 90}, alto_mm : {80, 140}, margen_mm : {10},
            font_sku_pt : {12}, font_nombre_pt : {10},
            logo : {LogoOk, LogoCorrupt},
            mostrar_logo : {TRUE}, mostrar_codigo_qr : {TRUE},
            mostrar_codigo_barras : {TRUE}, barcode_available : {TRUE},
            procesamiento_paralelo : BOOLEAN] :
        <<c.ancho_mm, c.alto_mm>> \in {<<60, 80>>, <<90, 140>>}}

NoInput == [none |-> TRUE]

Init ==
    /\ cfg \in Configs
    /\ df \in Frames
    /\ cfg.procesamiento_paralelo => Len(df.rows) <= MaxRecords
    /\ pc = "ui"
    /\ cols = 0
    /\ rows = 0
    /\ canvas = NoCanvas
    /\ futures = << >>
    /\ i = 0
    /\ ops = << >>
    /\ preview = NoImage
    /\ error = "none"
    /\ download = FALSE
    /\ entry = "none"
    /\ inp = NoInput
    /\ out = NoImage
    /\ selected_items = << >>

-----------------------------------------------------------------------------
(* Script and tiler steps *)

\* lines 445-454 (and 627-635): the preview of the first row is rendered on
\* every script run, before any button is looked at
RenderPreview ==
    /\ pc = "ui"
    /\ preview = NoImage
    /\ LET f == RowFields(df.rows[1], df)
       IN  preview' = build_label_image(f.sku, f.nombre, f.url,
                                        f.codigo_barras, cfg, MM_TO_PX)
    /\ UNCHANGED <<cfg, df, pc, cols, rows, canvas, futures, i, ops, error,
                   download, entry, inp, out, selected_items>>

\* lines 233-236 and 260/273: the canvas is created and the path chosen
EnterTiler(ncols, nrows, how) ==
    /\ cols' = ncols
    /\ rows' = nrows
    /\ entry' = how
    /\ canvas' = NewCanvas
    /\ pc' = IF cfg.procesamiento_paralelo THEN "submit" ELSE "seq"
    /\ UNCHANGED <<cfg, df, futures, i, ops, preview, error, download, inp, out, selected_items>>

\* variant: cols and rows are computed from the whole page, margins ignored
GenerarPDFIgnoresMargin ==
    /\ pc = "ui"
    /\ preview # NoImage
    /\ LET ncols == A4_W \div cfg.ancho_mm
           nrows == A4_H \div cfg.alto_mm
       IN  IF ncols < 1 \/ nrows < 1
           THEN /\ error' = "config"
                /\ pc' = "rejected"
                /\ cols' = ncols
                /\ rows' = nrows
                /\ UNCHANGED <<cfg, df, canvas, futures, i, ops, preview,
                               download, entry, inp, out, selected_items>>
           ELSE EnterTiler(ncols, nrows, "ui")

\* lines 457-471 (and 640-652): the button computes cols and rows, reports an
\* error when no label fits and calls the tiler otherwise
GenerarPDF ==
    /\ pc = "ui"
    /\ preview # NoImage
    /\ LET ncols == (A4_W - 2 * cfg.margen_mm) \div cfg.ancho_mm
           nrows == (A4_H - 2 * cfg.margen_mm) \div cfg.alto_mm
       IN  IF ncols < 1 \/ nrows < 1
           THEN /\ error' = "config"
                /\ pc' = "rejected"
                /\ cols' = ncols
                /\ rows' = nrows
                /\ UNCHANGED <<cfg, df, canvas, futures, i, ops, preview,
                               download, entry, inp, out, selected_items>>
           ELSE EnterTiler(ncols, nrows, "ui")

\* generar_etiquetas_paralelo called by other code with cols and rows of the
\* caller's choice
DirectCall ==
    /\ pc = "ui"
    /\ preview = NoImage
    /\ \E ncols \in 0..MaxGrid, nrows \in 0..MaxGrid :
           EnterTiler(ncols, nrows, "direct")

\* an exception leaves the function: the button handler catches and reports
\* it (lines 479-481), a direct caller receives it
Raise(exc) ==
    /\ error' = exc
    /\ pc' = "failed"

\* lines 263-264: executor.submit(procesar_etiqueta, i, row)
Submit ==
    /\ pc = "submit"
    /\ futures' = Append(futures, [state |-> "queued"])
    /\ pc' = IF Len(futures) + 1 = NRows THEN "place" ELSE "submit"
    /\ UNCHANGED <<cfg, df, cols, rows, canvas, i, ops, preview, error,
                   download, entry, inp, out, selected_items>>

Running == {k \in 1..Len(futures) : futures[k].state = "running"}
Queued == {k \in 1..Len(futures) : futures[k].state = "queued"}

\* a free worker of the pool takes the oldest queued task
WorkerStart ==
    /\ Queued # {}
    /\ Cardinality(Running) < max_workers
    /\ LET k == CHOOSE q \in Queued : \A r \in Queued : q <= r
       IN  futures' = [futures EXCEPT ![k] = [state |-> "running"]]
    /\ UNCHANGED <<cfg, df, pc, cols, rows, canvas, i, ops, preview, error,
                   download, entry, inp, out, selected_items>>

\* variant: the index of a label is the number of labels finished before it
WorkerFinishNumbersByCompletion ==
    /\ \E k \in Running :
         futures' = [futures EXCEPT ![k] =
                        [state |-> "done",
                         result |-> procesar_etiqueta(
                             Cardinality({q \in 1..Len(futures) :
                                              futures[q].state = "done"}),
                             df.rows[k], df, cfg, cols, rows)]]
    /\ UNCHANGED <<cfg, df, pc, cols, rows, canvas, i, ops, preview, error,
                   download, entry, inp, out, selected_items>>

\* variant: the worker task draws its label into the document itself
WorkerFinishDraws ==
    /\ \E k \in Running :
         LET r == procesar_etiqueta(k - 1, df.rows[k], df, cfg, cols, rows)
         IN  /\ futures' = [futures EXCEPT ![k] = [state |-> "done", result |-> r]]
             /\ canvas' = IF r.exc = "none" THEN drawImage(canvas, r, cfg)
                           ELSE canvas
    /\ UNCHANGED <<cfg, df, pc, cols, rows, i, ops, preview, error,
                   download, entry, inp, out, selected_items>>

\* a worker finishes procesar_etiqueta(k-1, row): the future holds the
\* result or the exception
WorkerFinish ==
    /\ \E k \in Running :
         futures' = [futures EXCEPT ![k] =
                        [state |-> "done",
                         result |-> procesar_etiqueta(k - 1, df.rows[k], df,
                                                      cfg, cols, rows)]]
    /\ UNCHANGED <<cfg, df, pc, cols, rows, canvas, i, ops, preview, error,
                   download, entry, inp, out, selected_items>>

\* variant: the results are placed as they complete, not in list order
PlaceAsCompleted ==
    /\ pc = "place"
    /\ i < NRows
    /\ \E k \in 1..Len(futures) :
          /\ futures[k].state = "done"
          /\ \A j \in 1..Len(ops) :
                ops[j].op = "drawImage" => ops[j].rec # k - 1
          /\ LET r == futures[k].result
             IN  IF r.exc # "none"
                 THEN /\ Raise(r.exc)
                      /\ UNCHANGED <<canvas, ops, i>>
                 ELSE /\ canvas' = PlaceLabel(canvas, r, i, cfg, cols, rows)
                      /\ ops' = ops \o OpsOfPlace(r, i, cfg, cols, rows)
                      /\ i' = i + 1
                      /\ pc' = IF i + 1 = NRows THEN "save" ELSE "place"
                      /\ error' = error
    /\ UNCHANGED <<cfg, df, cols, rows, futures, preview, download, entry,
                   inp, out, selected_items>>

\* lines 266-272: future.result() of the next future in list order, then
\* drawImage and the page break test
Place ==
    /\ pc = "place"
    /\ i < NRows
    /\ futures[i + 1].state = "done"
    /\ LET r == futures[i + 1].result
       IN  IF r.exc # "none"
           THEN /\ Raise(r.exc)
                /\ UNCHANGED <<canvas, ops, i>>
           ELSE /\ canvas' = PlaceLabel(canvas, r, i, cfg, cols, rows)
                /\ ops' = ops \o OpsOfPlace(r, i, cfg, cols, rows)
                /\ i' = i + 1
                /\ pc' = IF i + 1 = NRows THEN "save" ELSE "place"
                /\ error' = error
    /\ UNCHANGED <<cfg, df, cols, rows, futures, preview, download, entry,
                   inp, out, selected_items>>

\* lines 275-281: one iteration of the sequential loop
SeqStep ==
    /\ pc = "seq"
    /\ i < NRows
    /\ LET r == procesar_etiqueta(i, df.rows[i + 1], df, cfg, cols, rows)
       IN  IF r.exc # "none"
           THEN /\ Raise(r.exc)
                /\ UNCHANGED <<canvas, ops, i>>
           ELSE /\ canvas' = PlaceLabel(canvas, r, i, cfg, cols, rows)
                /\ ops' = ops \o OpsOfPlace(r, i, cfg, cols, rows)
                /\ i' = i + 1
                /\ pc' = IF i + 1 = NRows THEN "save" ELSE "seq"
                /\ error' = error
    /\ UNCHANGED <<cfg, df, cols, rows, futures, preview, download, entry,
                   inp, out, selected_items>>

\* lines 283-285 and 477-478: c.save(), the buffer is returned and, in the
\* script, offered for download
Save ==
    /\ pc = "save"
    /\ canvas' = save(canvas)
    /\ ops' = Append(ops, [op |-> "save"])
    /\ download' = (entry = "ui")
    /\ pc' = "done"
    /\ UNCHANGED <<cfg, df, cols, rows, futures, i, preview, error, entry,
                   inp, out, selected_items>>

\* lines 273-283 run to the end from record k on: the document, the
\* operations and the exception that leaves the function, if any
RECURSIVE SequentialFrom(_, _, _, _, _, _, _)
SequentialFrom(k, cv, o, d, c, ncols, nrows) ==
    IF k >= Len(d.rows)
    THEN [canvas |-> save(cv), ops |-> Append(o, [op |-> "save"]), exc |-> "none"]
    ELSE LET r == procesar_etiqueta(k, d.rows[k + 1], d, c, ncols, nrows)
         IN  IF r.exc # "none"
             THEN [canvas |-> cv, ops |-> o, exc |-> r.exc]
             ELSE SequentialFrom(k + 1, PlaceLabel(cv, r, k, c, ncols, nrows),
                                 o \o OpsOfPlace(r, k, c, ncols, nrows),
                                 d, c, ncols, nrows)

\* the sequential path on the same frame, configuration and grid
SequentialRun == SequentialFrom(0, NewCanvas, << >>, df, cfg, cols, rows)

Next ==
    \/ RenderPreview
    \/ GenerarPDF
    \/ DirectCall
    \/ Submit
    \/ WorkerStart
    \/ WorkerFinish
    \/ Place
    \/ SeqStep
    \/ Save

Spec == Init /\ [][Next]_vars

-----------------------------------------------------------------------------
(* The renderer on its own: one call of build_label_image per behaviour,   *)
(* over a wider range of arguments and of the global MM_TO_PX              *)

Scales == {MM_TO_PX, 2 * MM_TO_PX}

LabelConfigs ==
    [ancho_mm : {30, 60}, alto_mm : {45, 80}, margen_mm : {10},
     font_sku_pt : {12}, font_nombre_pt : {10},
     logo : {LogoOk, LogoCorrupt, LogoMissing},
     mostrar_logo : BOOLEAN, mostrar_codigo_qr : BOOLEAN,
     mostrar_codigo_barras : BOOLEAN, barcode_available : BOOLEAN,
     procesamiento_paralelo : {FALSE}]

LabelInputs ==
    [none : {FALSE},
     sku : {<< >>, SkuText, <<8, 8, 8, 8>>}, nombre : {NombreText},
     url : {"", "nan", Url, LongUrl},
     codigo_barras : {"", Code, BadCode},
     c : LabelConfigs, px : Scales]

InitLabel ==
    /\ inp \in LabelInputs
    /\ selected_items = << >>
    /\ out = NoImage
    /\ cfg = NoInput
    /\ df = [columns |-> {}, rows |-> << >>]
    /\ pc = "render"
    /\ cols = 0
    /\ rows = 0
    /\ canvas = NoCanvas
    /\ futures = << >>
    /\ i = 0
    /\ ops = << >>
    /\ preview = NoImage
    /\ error = "none"
    /\ download = FALSE
    /\ entry = "none"

\* img = build_label_image(...)
BuildLabel ==
    /\ pc = "render"
    /\ out = NoImage
    /\ out' = build_label_image(inp.sku, inp.nombre, inp.url,
                                inp.codigo_barras, inp.c, inp.px)
    /\ pc' = "rendered"
    /\ UNCHANGED <<cfg, df, cols, rows, canvas, futures, i, ops, preview,
                   error, download, entry, inp, selected_items>>

NextLabel == BuildLabel

SpecLabel == InitLabel /\ [][NextLabel]_vars

-----------------------------------------------------------------------------
(* Properties of the tiler *)

RECURSIVE Flatten(_)
Flatten(ss) == IF ss = << >> THEN << >> ELSE ss[1] \o Flatten(Tail(ss))

\* every label drawn so far, in drawing order, and the (0-based) number of
\* the page it was drawn on
PlacedSeq == Flatten(canvas.pages) \o canvas.code
Placed == {PlacedSeq[k] : k \in 1..Len(PlacedSeq)}
PagesSoFar ==
    IF canvas.code = << >> THEN canvas.pages ELSE Append(canvas.pages, canvas.code)

GridOk == cols >= 1 /\ rows >= 1
PerPage == cols * rows

\* C1: with cols >= 1 and rows >= 1 the label of record i is drawn in cell
\* col = i mod cols, row = (i div cols) mod rows, at the position of that
\* cell, so every page starts again at (col 0, row 0): in a 3 x 3 grid
\* record 9 is at (0, 0).
C1_CellOfIndex ==
    GridOk =>
        /\ \A d \in Placed :
              /\ d.col = d.rec % cols
              /\ d.rown = (d.rec \div cols) % rows
              /\ d.x = cfg.margen_mm + (d.rec % cols) * cfg.ancho_mm
              /\ d.y = A4_H - cfg.margen_mm
                         - (((d.rec \div cols) % rows) + 1) * cfg.alto_mm
        /\ \A p \in 1..Len(PagesSoFar) :
              PagesSoFar[p][1].col = 0 /\ PagesSoFar[p][1].rown = 0
        /\ (cols = 3 /\ rows = 3) =>
              \A d \in Placed : d.rec = 9 => (d.col = 0 /\ d.rown = 0)

C1_Witness ==
    /\ cols = 3 /\ rows = 3
    /\ Len(canvas.pages) = 1
    /\ \E d \in Placed : d.rec = 9 /\ d.col = 0 /\ d.rown = 0
    /\ \E d \in Placed : d.rec = 5 /\ d.col = 2 /\ d.rown = 1

DrawOps == SelectSeq(ops, LAMBDA o : o.op = "drawImage")

\* C2: on both paths the page is closed right after record i is placed if
\* and only if (i+1) mod (cols*rows) = 0; so record i is on page
\* i div (cols*rows) and no page holds more than cols*rows labels.
C2_PageBreaks ==
    GridOk =>
        /\ \A k \in 1..Len(ops) :
              ops[k].op = "drawImage" =>
                  ((k < Len(ops) /\ ops[k + 1].op = "showPage")
                      <=> (ops[k].rec + 1) % PerPage = 0)
        /\ \A k \in 1..Len(ops) :
              ops[k].op = "showPage" => (k > 1 /\ ops[k - 1].op = "drawImage")
        /\ \A p \in 1..Len(PagesSoFar) :
              /\ Len(PagesSoFar[p]) <= PerPage
              /\ \A q \in 1..Len(PagesSoFar[p]) :
                    PagesSoFar[p][q].rec \div PerPage = p - 1
        /\ Len(canvas.code) < PerPage

C2_Witness ==
    /\ cfg.procesamiento_paralelo
    /\ Len(canvas.pages) = 2
    /\ Len(canvas.code) = 1
    /\ PerPage = 2
    /\ ~canvas.saved

\* C3: for n >= 1 records the saved document holds every record exactly
\* once, in order, on exactly ceil(n / (cols*rows)) pages: the last, partly
\* filled page is flushed by save and an exact multiple adds no empty page
\* (20 records at 9 per page: 3 pages, the third with 2 labels at cells
\* (0,0) and (1,0)).
C3_AllRecordsOnCeilPages ==
    (pc = "done" /\ NRows >= 1) =>
        /\ canvas.saved
        /\ canvas.code = << >>
        /\ Len(canvas.pages) = (NRows + PerPage - 1) \div PerPage
        /\ \A p \in 1..Len(canvas.pages) : canvas.pages[p] # << >>
        /\ Len(PlacedSeq) = NRows
        /\ \A k \in 1..NRows : PlacedSeq[k].rec = k - 1
        /\ (NRows = 20 /\ cols = 3 /\ rows = 3) =>
              /\ Len(canvas.pages) = 3
              /\ Len(canvas.pages[3]) = 2
              /\ <<canvas.pages[3][1].col, canvas.pages[3][1].rown>> = <<0, 0>>
              /\ <<canvas.pages[3][2].col, canvas.pages[3][2].rown>> = <<1, 0>>

C3_Witness ==
    /\ pc = "done"
    /\ NRows = 20 /\ cols = 3 /\ rows = 3
    /\ Len(canvas.pages) = 3
    /\ Len(canvas.pages[3]) = 2

\* the image build_label_image returns for row k (1-based) of the frame
LabelOfRow(k) ==
    LET f == RowFields(df.rows[k], df)
    IN  build_label_image(f.sku, f.nombre, f.url, f.codigo_barras, cfg, MM_TO_PX)

\* C4: on the worker pool path, whatever the order in which the render
\* tasks finish, the k-th drawImage draws the label of the k-th record at
\* the cell of index k.
C4_PlacementInRecordOrder ==
    (cfg.procesamiento_paralelo /\ GridOk) =>
        /\ Len(DrawOps) = Len(PlacedSeq)
        /\ Len(DrawOps) = i
        /\ \A k \in 1..Len(PlacedSeq) :
              /\ PlacedSeq[k].rec = k - 1
              /\ DrawOps[k].rec = k - 1
              /\ PlacedSeq[k].img = LabelOfRow(k)
              /\ PlacedSeq[k].col = (k - 1) % cols
              /\ PlacedSeq[k].rown = ((k - 1) \div cols) % rows
              /\ DrawOps[k].x = cfg.margen_mm + ((k - 1) % cols) * cfg.ancho_mm
              /\ DrawOps[k].y = A4_H - cfg.margen_mm
                                  - ((((k - 1) \div cols) % rows) + 1) * cfg.alto_mm

\* record 0 is placed, record 1 is still being rendered and record 2 has
\* already finished
C4_Witness ==
    /\ cfg.procesamiento_paralelo
    /\ GridOk
    /\ pc = "place"
    /\ i = 1
    /\ Len(PlacedSeq) = 1
    /\ Len(futures) >= 3
    /\ futures[2].state = "running"
    /\ futures[3].state = "done"

\* a label was rendered: the preview, a finished task, a placed label or a
\* sequential step that went on to fail
LabelRendered ==
    \/ preview # NoImage
    \/ \E k \in 1..Len(futures) : futures[k].state = "done"
    \/ Placed # {}
    \/ pc = "failed"

\* C5: when cols < 1 or rows < 1 the run fails with a configuration error
\* before any label is drawn (the preview included) and before any page or
\* document is created, and nothing is offered for download, however the
\* tiler is reached.
C5_ConfigErrorBeforeAnyWork ==
    (pc # "ui" /\ (cols < 1 \/ rows < 1)) =>
        /\ error = "config"
        /\ ~canvas.created
        /\ ~LabelRendered
        /\ ~download

UrlAbsent(row) == "url" \notin df.columns \/ row.url \in {NaN, ""}
BarcodeAbsent(row) ==
    "codigo_barras" \notin df.columns \/ row.codigo_barras \in {NaN, ""}

OmitsAbsent(row, img) ==
    /\ UrlAbsent(row) => ~img.qr.drawn
    /\ BarcodeAbsent(row) => ~img.barcode.drawn

\* C7: a row whose URL (barcode value) is absent - missing column, blank
\* cell as the loader delivers it, or empty string - gets a label without QR
\* (without barcode) through the tiler and through the preview, whatever the
\* other rows hold, and no error is raised.
C7_AbsentValueOmitsElement ==
    /\ \A d \in Placed : OmitsAbsent(df.rows[d.rec + 1], d.img)
    /\ \A k \in 1..Len(futures) :
          (futures[k].state = "done" /\ futures[k].result.exc = "none") =>
              OmitsAbsent(df.rows[k], futures[k].result.img)
    /\ preview # NoImage => OmitsAbsent(df.rows[1], preview)
    /\ GridOk => error = "none"

\* the elements of a label of the run: the image has the configured size and
\* each element is there exactly when it is enabled, has a value and its
\* encoder or loader did not fail; the texts are drawn whole
ElementsOf(img, f) ==
    /\ ~img.none
    /\ img.w_px = cfg.ancho_mm * MM_TO_PX
    /\ img.h_px = cfg.alto_mm * MM_TO_PX
    /\ img.logo.drawn <=> (cfg.mostrar_logo /\ cfg.logo.state = "ok")
    /\ img.qr.drawn <=> (cfg.mostrar_codigo_qr /\ f.url \notin {"", LongUrl})
    /\ img.qr.drawn => img.qr.data = f.url
    /\ img.barcode.drawn <=>
          (cfg.mostrar_codigo_barras /\ cfg.barcode_available
              /\ f.codigo_barras \notin {"", BadCode})
    /\ img.barcode.drawn => img.barcode.data = f.codigo_barras
    /\ Flatten(img.sku.text.lines) = f.sku
    /\ Flatten(img.nombre.text.lines) = f.nombre

\* C8: a failure to load the logo, to encode the QR or to encode the barcode
\* costs the label that element only: all other enabled elements are drawn,
\* the image has the configured size, and the run goes on to the next
\* record and to the end.
C8_FailuresAreLocal ==
    /\ \A d \in Placed : ElementsOf(d.img, RowFields(df.rows[d.rec + 1], df))
    /\ \A k \in 1..Len(futures) :
          (futures[k].state = "done" /\ GridOk) =>
              /\ futures[k].result.exc = "none"
              /\ ElementsOf(futures[k].result.img, RowFields(df.rows[k], df))
    /\ preview # NoImage => ElementsOf(preview, RowFields(df.rows[1], df))
    /\ GridOk => (error = "none" /\ pc # "failed")
    /\ (pc = "done" /\ GridOk) => Len(PlacedSeq) = NRows

C8_Witness ==
    /\ pc = "done"
    /\ cfg.procesamiento_paralelo
    /\ Len(PlacedSeq) >= 2
    /\ PlacedSeq[1].img.logo.failed
    /\ PlacedSeq[1].img.qr.failed
    /\ PlacedSeq[1].img.barcode.failed
    /\ ~PlacedSeq[1].img.logo.drawn
    /\ ~PlacedSeq[1].img.qr.drawn
    /\ ~PlacedSeq[1].img.barcode.drawn
    /\ PlacedSeq[1].img.sku.text.lines # << >>
    /\ PlacedSeq[1].img.nombre.text.lines # << >>
    /\ PlacedSeq[2].img.qr.drawn
    /\ PlacedSeq[2].img.barcode.drawn

-----------------------------------------------------------------------------
(* Properties of the renderer *)

Rendered == out # NoImage

\* C6: with an empty URL, or with the QR switched off, the label has no QR
\* and the SKU text starts where the QR would have started: right below the
\* logo, or at the default top offset when there is no logo.
C6_NoQrNoGap ==
    (Rendered /\ (inp.url = "" \/ ~inp.c.mostrar_codigo_qr)) =>
        /\ ~out.qr.drawn
        /\ out.sku.y = IF out.logo.drawn THEN out.logo.y + out.logo.h + 6 ELSE 10
        /\ inp.sku # << >> => out.sku.text.tops[1] = out.sku.y
        /\ LET withQr == build_label_image(
                             inp.sku, inp.nombre, Url, inp.codigo_barras,
                             [inp.c EXCEPT !.mostrar_codigo_qr = TRUE], inp.px)
           IN  withQr.qr.drawn /\ withQr.qr.y = out.sku.y

C6_Witness ==
    /\ Rendered
    /\ inp.url = ""
    /\ inp.c.mostrar_codigo_qr
    /\ out.logo.drawn
    /\ inp.sku # << >>
    /\ ~out.qr.drawn
    /\ out.sku.text.tops[1] = out.logo.y + out.logo.h + 6

\* C9: a label left without QR because the encoding failed is laid out like
\* the label of the same record and configuration with an empty URL: SKU and
\* name start at the same heights.
C9_FailedQrCollapses ==
    (Rendered /\ out.qr.failed) =>
        LET empty == build_label_image(inp.sku, inp.nombre, "",
                                       inp.codigo_barras, inp.c, inp.px)
        IN  /\ out.sku.y = empty.sku.y
            /\ out.nombre.y = empty.nombre.y
            /\ out.sku.text.tops = empty.sku.text.tops
            /\ out.nombre.text.tops = empty.nombre.text.tops

\* a pixel length a at scale sa and a pixel length b at scale sb are the
\* same length on paper: a / sa = b / sb
SameOnPaper(a, sa, b, sb) == a * sb = b * sa

SameSeqOnPaper(a, sa, b, sb) ==
    /\ Len(a) = Len(b)
    /\ \A k \in 1..Len(a) : SameOnPaper(a[k], sa, b[k], sb)

\* C10: the scale MM_TO_PX changes the sharpness only: for any two scales
\* the footprint of the label on the page is the same and so are the size
\* and the position on paper (pixels divided by the scale) of the logo, the
\* QR, the text lines and the barcode.
C10_ScaleOnlySharpness ==
    Rendered =>
        \A s \in Scales :
            LET o == build_label_image(inp.sku, inp.nombre, inp.url,
                                       inp.codigo_barras, inp.c, s)
                t == inp.px
            IN  /\ \A col \in 0..1, rown \in 0..1 :
                      Footprint(col, rown, inp.c, s)
                          = Footprint(col, rown, inp.c, t)
                /\ SameOnPaper(out.w_px, t, o.w_px, s)
                /\ SameOnPaper(out.h_px, t, o.h_px, s)
                /\ out.logo.drawn = o.logo.drawn
                /\ SameSeqOnPaper(
                       <<out.logo.x, out.logo.y, out.logo.w, out.logo.h>>, t,
                       <<o.logo.x, o.logo.y, o.logo.w, o.logo.h>>, s)
                /\ out.qr.drawn = o.qr.drawn
                /\ SameSeqOnPaper(<<out.qr.x, out.qr.y, out.qr.size>>, t,
                                  <<o.qr.x, o.qr.y, o.qr.size>>, s)
                /\ out.sku.text.lines = o.sku.text.lines
                /\ SameSeqOnPaper(out.sku.text.tops, t, o.sku.text.tops, s)
                /\ out.nombre.text.lines = o.nombre.text.lines
                /\ SameSeqOnPaper(out.nombre.text.tops, t, o.nombre.text.tops, s)
                /\ out.barcode.drawn = o.barcode.drawn
                /\ SameSeqOnPaper(
                       <<out.barcode.x, out.barcode.y, out.barcode.w,
                         out.barcode.h>>, t,
                       <<o.barcode.x, o.barcode.y, o.barcode.w, o.barcode.h>>, s)

-----------------------------------------------------------------------------
(* Placement on the page *)

\* C11: the label of cell (col, row) has its lower left corner at
\* x = margin + col * label_width and, from the bottom of the page,
\* y = page_height - margin - (row+1) * label_height, so that its top edge
\* is margin + row * label_height below the top of the page; it is drawn
\* label_width wide and label_height high.
C11_CellPosition ==
    \A d \in Placed :
        /\ d.x = cfg.margen_mm + d.col * cfg.ancho_mm
        /\ d.y = A4_H - cfg.margen_mm - (d.rown + 1) * cfg.alto_mm
        /\ A4_H - (d.y + d.h) = cfg.margen_mm + d.rown * cfg.alto_mm
        /\ d.w = cfg.ancho_mm
        /\ d.h = cfg.alto_mm
        /\ \E k \in 1..Len(ops) :
              /\ ops[k].op = "drawImage"
              /\ ops[k].rec = d.rec
              /\ <<ops[k].x, ops[k].y, ops[k].w, ops[k].h>> = <<d.x, d.y, d.w, d.h>>

C11_Witness ==
    /\ cfg.ancho_mm = 60 /\ cfg.alto_mm = 80 /\ cfg.margen_mm = 10
    /\ \E d \in Placed :
          /\ d.col = 1 /\ d.rown = 1
          /\ d.x = 70 /\ d.y = 127
          /\ d.w = 60 /\ d.h = 80

-----------------------------------------------------------------------------
(* draw_centered_wrapped on its own: one call per behaviour *)

Texts == UNION {[1..n -> 1..MaxWordLen] : n \in 0..MaxWords}

WrapInputs ==
    [none : {FALSE}, text : Texts, font : {10, 16}, max_width : {18, 30},
     x_center : {120}, y_top : {10}]

InitWrap ==
    /\ inp \in WrapInputs
    /\ selected_items = << >>
    /\ out = NoImage
    /\ cfg = NoInput
    /\ df = [columns |-> {}, rows |-> << >>]
    /\ pc = "wrap"
    /\ cols = 0
    /\ rows = 0
    /\ canvas = NoCanvas
    /\ futures = << >>
    /\ i = 0
    /\ ops = << >>
    /\ preview = NoImage
    /\ error = "none"
    /\ download = FALSE
    /\ entry = "none"

\* h = draw_centered_wrapped(draw, text, x_center, y_top, font, max_width)
DrawText ==
    /\ pc = "wrap"
    /\ out' = draw_centered_wrapped(inp.text, inp.x_center, inp.y_top,
                                    inp.font, inp.max_width)
    /\ pc' = "wrapped"
    /\ UNCHANGED <<cfg, df, cols, rows, canvas, futures, i, ops, preview,
                   error, download, entry, inp, selected_items>>

NextWrap == DrawText

SpecWrap == InitWrap /\ [][NextWrap]_vars

\* C12: the words are packed greedily by measured width: the lines hold the
\* words in input order, whole, none lost or repeated; a word joins the
\* current line exactly when the line with it measures <= max_width and
\* starts a new line otherwise; so a line of two or more words never exceeds
\* max_width, only a single word can, no line is empty, and the height
\* returned is the sum over the lines of (line height + 2).
C12_GreedyWrap ==
    pc = "wrapped" =>
        LET L == out.lines
            f == inp.font
            mw == inp.max_width
        IN  /\ Flatten(L) = inp.text
            /\ \A k \in 1..Len(L) :
                  /\ L[k] # << >>
                  /\ \A j \in 2..Len(L[k]) :
                        TextWidth(SubSeq(L[k], 1, j), f) <= mw
                  /\ TextWidth(L[k], f) > mw => Len(L[k]) = 1
                  /\ k > 1 => TextWidth(Append(L[k - 1], L[k][1]), f) > mw
            /\ out.total_h = SumSeq([k \in 1..Len(L) |-> TextHeight(L[k], f) + 2])
            /\ Len(out.tops) = Len(L)
            /\ \A k \in 1..Len(L) :
                  out.tops[k] = inp.y_top
                      + SumSeq([j \in 1..(k - 1) |-> TextHeight(L[j], f) + 2])

\* a single word wider than max_width on a line of its own, followed by a
\* line of two words that fits exactly
C12_Witness ==
    /\ pc = "wrapped"
    /\ Len(out.lines) >= 2
    /\ \E k \in 1..Len(out.lines) :
          /\ Len(out.lines[k]) = 1
          /\ TextWidth(out.lines[k], inp.font) > inp.max_width
    /\ \E k \in 1..Len(out.lines) :
          /\ Len(out.lines[k]) = 2
          /\ TextWidth(out.lines[k], inp.font) = inp.max_width
    /\ out.total_h = Len(out.lines) * (inp.font + 2)

-----------------------------------------------------------------------------
(* The worker pool and the document *)

\* the futures whose state or result a step changes
Touched ==
    {k \in 1..Len(futures') : k > Len(futures) \/ futures'[k] # futures[k]}

\* C13: in the parallel path a step of a render task changes nothing but
\* that one task's own future (its label image and buffer): the document
\* (drawImage, showPage, save) and the operation log are changed only by
\* the placement loop, never in a step of a worker; a finished task's result
\* is never written again; and the label of record i is placed only after
\* task i is done, from that task's result.
C13_NoSharedWrites ==
    [][ /\ futures' # futures =>
              /\ canvas' = canvas
              /\ ops' = ops
              /\ i' = i
              /\ Len(futures') >= Len(futures)
              /\ Cardinality(Touched) = 1
        /\ \A k \in 1..Len(futures) :
              futures[k].state = "done" => futures'[k] = futures[k]
        /\ (canvas' # canvas \/ ops' # ops) =>
              /\ futures' = futures
              /\ pc \in {"ui", "place", "seq", "save"}
        /\ (cfg.procesamiento_paralelo /\ canvas.created /\ canvas' # canvas
                /\ ~canvas'.saved) =>
              /\ pc = "place"
              /\ i' = i + 1
              /\ futures[i + 1].state = "done"
              /\ LET new == IF canvas'.code # << >>
                            THEN canvas'.code[Len(canvas'.code)]
                            ELSE LET pg == canvas'.pages[Len(canvas'.pages)]
                                 IN  pg[Len(pg)]
                 IN  /\ new.rec = i
                     /\ new.img = futures[i + 1].result.img
      ]_vars

\* a label has been placed while other render tasks are still running or
\* waiting for a worker
C13_Witness ==
    /\ cfg.procesamiento_paralelo
    /\ pc = "place"
    /\ i >= 1
    /\ canvas.code # << >>
    /\ Running # {}
    /\ Queued # {}
    /\ \A d \in Placed : futures[d.rec + 1].state = "done"

-----------------------------------------------------------------------------
(* Parallel and sequential path *)

IsPrefix(a, b) == Len(a) <= Len(b) /\ SubSeq(b, 1, Len(a)) = a

\* C14: whatever the schedule of the worker pool, the parallel path issues
\* the document operations of the sequential path on the same records,
\* configuration and grid: at every moment the operations issued so far are
\* a prefix of the sequential run's, and when the function ends the
\* operations (labels with x, y, width, height, in order, and the page
\* breaks after the same records), the pages and the exception, if any,
\* are the same.
C14_ParallelEqualsSequential ==
    canvas.created =>
        LET ref == SequentialRun
        IN  /\ IsPrefix(ops, ref.ops)
            /\ pc = "done" =>
                  /\ ref.exc = "none"
                  /\ ops = ref.ops
                  /\ canvas = ref.canvas
            /\ pc = "failed" =>
                  /\ error = ref.exc
                  /\ ops = ref.ops
                  /\ canvas = ref.canvas

\* a parallel run over three pages has ended with the sequential run's
\* operations
C14_Witness ==
    /\ cfg.procesamiento_paralelo
    /\ pc = "done"
    /\ NRows >= 3
    /\ Len(canvas.pages) >= 3
    /\ Cardinality({k \in 1..Len(ops) : ops[k].op = "showPage"}) >= 2
    /\ ops = SequentialRun.ops

-----------------------------------------------------------------------------
(* The "Generar PDF" button over the range of the size widgets *)

\* ancho_mm and alto_mm from the ends and the middle of 30..150, margen_mm
\* from the ends of 5..25; 100 x 41 with margin 5 fills the margin box
\* exactly (2 x 100 = 200, 7 x 41 = 287)
GeomConfigs ==
    [ancho_mm : {30, 100, 150}, alto_mm : {30, 41, 150}, margen_mm : {5, 25},
     font_sku_pt : {12}, font_nombre_pt : {10}, logo : {LogoOk},
     mostrar_logo : {TRUE}, mostrar_codigo_qr : {TRUE},
     mostrar_codigo_barras : {TRUE}, barcode_available : {TRUE},
     procesamiento_paralelo : BOOLEAN]

\* labels on a full page of configuration c (lines 457-460)
Capacity(c) ==
    ((A4_W - 2 * c.margen_mm) \div c.ancho_mm)
        * ((A4_H - 2 * c.margen_mm) \div c.alto_mm)

InitGeom ==
    /\ cfg \in GeomConfigs
    /\ \E n \in 1..(Capacity(cfg) + Overflow) :
          /\ n \in {1, Capacity(cfg), Capacity(cfg) + Overflow}
          /\ cfg.procesamiento_paralelo => n <= MaxRecords
          /\ df = Frame(n, "full")
    /\ pc = "ui"
    /\ cols = 0
    /\ rows = 0
    /\ canvas = NoCanvas
    /\ futures = << >>
    /\ i = 0
    /\ ops = << >>
    /\ preview = NoImage
    /\ error = "none"
    /\ download = FALSE
    /\ entry = "none"
    /\ inp = NoInput
    /\ out = NoImage
    /\ selected_items = << >>

NextGeom ==
    \/ RenderPreview
    \/ GenerarPDF
    \/ Submit
    \/ WorkerStart
    \/ WorkerFinish
    \/ Place
    \/ SeqStep
    \/ Save

SpecGeom == InitGeom /\ [][NextGeom]_vars

Disjoint(a, b) ==
    \/ a.x + a.w <= b.x
    \/ b.x + b.w <= a.x
    \/ a.y + a.h <= b.y
    \/ b.y + b.h <= a.y

\* C15: when the button has computed cols = (210 - 2 margin) div width >= 1
\* and rows = (297 - 2 margin) div height >= 1, every label placed lies
\* inside the margin box of the A4 page and no two labels of one page
\* overlap or use the same cell.
C15_InsideMarginBoxNoOverlap ==
    (entry = "ui" /\ GridOk) =>
        /\ cols = (A4_W - 2 * cfg.margen_mm) \div cfg.ancho_mm
        /\ rows = (A4_H - 2 * cfg.margen_mm) \div cfg.alto_mm
        /\ \A d \in Placed :
              /\ d.w = cfg.ancho_mm
              /\ d.h = cfg.alto_mm
              /\ cfg.margen_mm <= d.x
              /\ d.x + d.w <= A4_W - cfg.margen_mm
              /\ cfg.margen_mm <= d.y
              /\ d.y + d.h <= A4_H - cfg.margen_mm
        /\ \A p \in 1..Len(PagesSoFar) :
              \A a, b \in 1..Len(PagesSoFar[p]) :
                  a < b =>
                      /\ <<PagesSoFar[p][a].col, PagesSoFar[p][a].rown>>
                             # <<PagesSoFar[p][b].col, PagesSoFar[p][b].rown>>
                      /\ Disjoint(PagesSoFar[p][a], PagesSoFar[p][b])

\* a document of more than one page whose full first page reaches the
\* right and the bottom edge of the margin box exactly
C15_Witness ==
    /\ entry = "ui"
    /\ pc = "done"
    /\ Len(canvas.pages) >= 2
    /\ Len(canvas.pages[1]) = cols * rows
    /\ cols >= 2
    /\ rows >= 2
    /\ \E d \in Placed :
          /\ d.x + d.w = A4_W - cfg.margen_mm
          /\ d.y = cfg.margen_mm

-----------------------------------------------------------------------------
(* Individual mode: the list of selected articles *)

\* the sku cells of the search results: texts, a repeated text, a blank
\* text, a blank cell (NaN) and the text "nan"
SkuCells == <<"S1", "S2", "S1", "", NaN, "nan", "S3">>

\* row j of the search results (load_data_from_excel_individual)
ResultRow(j) ==
    [sku |-> SkuCells[((j - 1) % Len(SkuCells)) + 1],
     nombre |-> IF j % 3 = 0 THEN NaN ELSE "Tornillo",
     codigo_barras |-> IF j % 2 = 0 THEN NaN ELSE Code,
     imagen_url |-> NaN,
     rubro |-> IF j % 2 = 0 THEN NaN ELSE "Ferreteria"]

\* paginated_df (lines 557-559)
SearchPage(n) ==
    [columns |-> {"sku", "nombre", "codigo_barras", "imagen_url", "rubro"},
     rows |-> [j \in 1..n |-> ResultRow(j)]]

\* the dict appended at lines 606-613
ItemOf(row, d) ==
    [sku |-> RowGet(row, "sku", d),
     nombre |-> RowGet(row, "nombre", d),
     url |-> "",
     codigo_barras |-> IF "codigo_barras" \in d.columns /\ row.codigo_barras # NaN
                       THEN Str(row.codigo_barras) ELSE "",
     imagen_url |-> IF "imagen_url" \in d.columns /\ row.imagen_url # NaN
                    THEN Str(row.imagen_url) ELSE "",
     rubro |-> RowGet(row, "rubro", d)]

\* [item["sku"] for item in st.session_state.selected_items]
SkusOf(items) == {items[j].sku : j \in 1..Len(items)}

\* variant: a row is appended without looking at the SKUs already listed
RECURSIVE AddRowsUnchecked(_, _, _, _)
AddRowsUnchecked(k, items, sel, d) ==
    IF k > Len(d.rows) THEN items
    ELSE IF k \notin sel THEN AddRowsUnchecked(k + 1, items, sel, d)
    ELSE LET sku == RowGet(d.rows[k], "sku", d)
         IN  IF sku # ""
             THEN AddRowsUnchecked(k + 1, Append(items, ItemOf(d.rows[k], d)),
                                   sel, d)
             ELSE AddRowsUnchecked(k + 1, items, sel, d)

\* lines 603-613: the loop over the ticked rows, in the order of the page
RECURSIVE AddRows(_, _, _, _)
AddRows(k, items, sel, d) ==
    IF k > Len(d.rows) THEN items
    ELSE IF k \notin sel THEN AddRows(k + 1, items, sel, d)
    ELSE LET sku == RowGet(d.rows[k], "sku", d)
         IN  IF sku # "" /\ sku \notin SkusOf(items)
             THEN AddRows(k + 1, Append(items, ItemOf(d.rows[k], d)), sel, d)
             ELSE AddRows(k + 1, items, sel, d)

InitSel ==
    /\ df \in {SearchPage(n) : n \in 1..MaxPageRows}
    /\ selected_items = << >>
    /\ inp = NoInput
    /\ pc = "individual"
    /\ cfg = NoInput
    /\ cols = 0
    /\ rows = 0
    /\ canvas = NoCanvas
    /\ futures = << >>
    /\ i = 0
    /\ ops = << >>
    /\ preview = NoImage
    /\ error = "none"
    /\ download = FALSE
    /\ entry = "none"
    /\ out = NoImage

\* lines 600-618: the button "Agregar articulos seleccionados a la lista"
\* with the rows sel ticked in the data editor
AddSelected ==
    /\ pc = "individual"
    /\ \E sel \in SUBSET (1..Len(df.rows)) :
          /\ inp' = [none |-> FALSE, op |-> "add", selected |-> sel]
          /\ selected_items' = IF sel # {}
                               THEN AddRows(1, selected_items, sel, df)
                               ELSE selected_items
    /\ UNCHANGED <<cfg, df, pc, cols, rows, canvas, futures, i, ops, preview,
                   error, download, entry, out>>

\* lines 657-660: the button "Limpiar lista de seleccion", drawn only while
\* the list is not empty
ClearList ==
    /\ pc = "individual"
    /\ Len(selected_items) > 0
    /\ selected_items' = << >>
    /\ inp' = [none |-> FALSE, op |-> "clear", selected |-> {}]
    /\ UNCHANGED <<cfg, df, pc, cols, rows, canvas, futures, i, ops, preview,
                   error, download, entry, out>>

NextSel ==
    \/ AddSelected
    \/ ClearList

SpecSel == InitSel /\ [][NextSel]_vars

\* the str() of the sku cell of page row k
SkuOfRow(k) == RowGet(df.rows[k], "sku", df)

\* C16: after any sequence of "add selected" and "clear list" the list never
\* holds two entries with the same SKU nor an entry with an empty SKU; an
\* add keeps the entries already listed, in their order, and appends only
\* SKUs that were ticked and not listed; an add of SKUs that are all listed
\* (or empty) leaves the list unchanged; a clear leaves the list empty.
C16_SelectionList ==
    /\ [](/\ \A a, b \in 1..Len(selected_items) :
                a # b => selected_items[a].sku # selected_items[b].sku
          /\ \A a \in 1..Len(selected_items) : selected_items[a].sku # "")
    /\ [][ pc = "individual" =>
             /\ inp'.op = "clear" => selected_items' = << >>
             /\ inp'.op = "add" =>
                   /\ IsPrefix(selected_items, selected_items')
                   /\ \A a \in (Len(selected_items) + 1)..Len(selected_items') :
                         /\ selected_items'[a].sku \notin SkusOf(selected_items)
                         /\ \E k \in inp'.selected :
                               selected_items'[a] = ItemOf(df.rows[k], df)
                   /\ \A k \in inp'.selected :
                         SkuOfRow(k) # "" => SkuOfRow(k) \in SkusOf(selected_items')
                   /\ (\A k \in inp'.selected :
                          SkuOfRow(k) = "" \/ SkuOfRow(k) \in SkusOf(selected_items))
                         => selected_items' = selected_items
         ]_vars

\* the last click ticked two rows with the same SKU, a row with a blank SKU
\* and a row whose SKU was already listed, and the list holds each SKU once,
\* in the order of insertion
C16_Witness ==
    /\ pc = "individual"
    /\ inp # NoInput
    /\ inp.op = "add"
    /\ {1, 2, 3, 4, 5, 6} \subseteq inp.selected
    /\ Len(selected_items) = 3
    /\ <<selected_items[1].sku, selected_items[2].sku, selected_items[3].sku>>
           = <<"S2", "S1", "nan">>

====
